---------------------------- MODULE Spec2Model ----------------------------
(***************************************************************************)
(* A model of mcp_server_kusto/server.py: the KustoDatabase gateway, the   *)
(* tool catalog and the handle_list_tools / handle_call_tool handlers.     *)
(* Python strings are TLA+ strings; TLC evaluates Len, \o and SubSeq on    *)
(* them, so the string methods below are computed character by character.  *)
(***************************************************************************)
EXTENDS Integers, Sequences, FiniteSets, TLC

VARIABLES
    kdb,        \* the KustoDatabase built by main(): its state and its kcsb
    tool_list,  \* the list of tools defined in main()
    listed,     \* what the last handle_list_tools call returned
    calls,      \* per call slot: the position and data of a handle_call_tool
    conns,      \* the KustoClient objects that are open
    logged      \* whether logger.error has written to the log file

vars == <<kdb, tool_list, listed, calls, conns, logged>>

---------------------------------------------------------------------------
(* Bounds of the model.                                                    *)

\* longest query string enumerated exhaustively
MaxLen == 3
\* longest table name T used in the queries "T | where x > 1"
MaxNameLen == 2
\* number of call slots (calls in flight at once) of the concurrent
\* specification
NumCalls == 2

---------------------------------------------------------------------------
(* Python string methods.                                                  *)

\* the characters str.strip() removes that the model's strings can hold
Whitespace == {" ", "\t", "\n", "\r"}

CharAt(s, i) == SubSeq(s, i, i)

\* s.startswith(p)
StartsWith(s, p) == Len(s) >= Len(p) /\ SubSeq(s, 1, Len(p)) = p

\* the index of the first occurrence of the one-character string ch in s at
\* or after position i, Len(s) + 1 when there is none
RECURSIVE FindChar(_, _, _)
FindChar(s, ch, i) ==
    IF i > Len(s) THEN Len(s) + 1
    ELSE IF CharAt(s, i) = ch THEN i
    ELSE FindChar(s, ch, i + 1)

\* s.split(sep)[0] for a one-character separator
SplitFirst(s, sep) == SubSeq(s, 1, FindChar(s, sep, 1) - 1)

RECURSIVE LStrip(_)
LStrip(s) ==
    IF Len(s) > 0 /\ CharAt(s, 1) \in Whitespace
    THEN LStrip(SubSeq(s, 2, Len(s)))
    ELSE s

RECURSIVE RStrip(_)
RStrip(s) ==
    IF Len(s) > 0 /\ CharAt(s, Len(s)) \in Whitespace
    THEN RStrip(SubSeq(s, 1, Len(s) - 1))
    ELSE s

\* s.strip()
Strip(s) == RStrip(LStrip(s))

\* s.replace(old, new) from position i on, for a non-empty old: occurrences
\* are taken left to right and do not overlap
RECURSIVE ReplaceFrom(_, _, _, _)
ReplaceFrom(s, old, new, i) ==
    IF i > Len(s) THEN ""
    ELSE IF i + Len(old) - 1 <= Len(s) /\ SubSeq(s, i, i + Len(old) - 1) = old
    THEN new \o ReplaceFrom(s, old, new, i + Len(old))
    ELSE CharAt(s, i) \o ReplaceFrom(s, old, new, i + 1)

\* s.replace("", new): new is put before every character and at the end
RECURSIVE Intersperse(_, _, _)
Intersperse(s, new, i) ==
    IF i > Len(s) THEN new
    ELSE new \o CharAt(s, i) \o Intersperse(s, new, i + 1)

\* s.replace(old, new)
Replace(s, old, new) ==
    IF old = "" THEN Intersperse(s, new, 1) ELSE ReplaceFrom(s, old, new, 1)

\* ", ".join(items) for a sequence of strings
RECURSIVE Join(_, _)
Join(items, sep) ==
    IF Len(items) = 0 THEN ""
    ELSE IF Len(items) = 1 THEN items[1]
    ELSE items[1] \o sep \o Join(Tail(items), sep)

\* repr(s) of a string without quotes or escapes in it
ReprStr(s) == "'" \o s \o "'"

\* str(list) of a list of strings
StrList(items) ==
    "[" \o Join([i \in 1..Len(items) |-> ReprStr(items[i])], ", ") \o "]"

---------------------------------------------------------------------------
(* Values.                                                                 *)

\* Python's None where a string is expected
None == "<None>"

\* the results of a gateway operation: None, a list of names, or the rows
\* of a primary result
NoneResult == [kind |-> "None"]
ListResult(items) == [kind |-> "list", items |-> items]
TableResult(rows) == [kind |-> "table", rows |-> rows]

\* str(results), as handle_call_tool applies it
Str(results) ==
    CASE results.kind = "None" -> "None"
      [] results.kind = "list" -> StrList(results.items)
      [] results.kind = "table" ->
            "[" \o Join([i \in 1..Len(results.rows) |->
                            StrList(results.rows[i])], ", ") \o "]"

---------------------------------------------------------------------------
(* KustoDatabase.__init__ and the start of main().                         *)

\* KustoConnectionStringBuilder.with_no_authentication(cluster)
WithNoAuthentication(cluster) ==
    [auth |-> "None", cluster |-> cluster, client_id |-> None,
     client_secret |-> None, authority_id |-> None]

\* KustoConnectionStringBuilder.with_aad_application_key_authentication(...)
WithAadApplicationKey(cluster, client_id, client_secret, authority_id) ==
    [auth |-> "AppCredential", cluster |-> cluster, client_id |-> client_id,
     client_secret |-> client_secret, authority_id |-> authority_id]

\* no connection string was built
NoKcsb ==
    [auth |-> "unset", cluster |-> None, client_id |-> None,
     client_secret |-> None, authority_id |-> None]

CredentialsRequired == "Client id, client secret and authority id are required"

\* the branch taken for any url of an http scheme, https included
IsLocalEmulator_AnyHttp(cluster) == StartsWith(cluster, "http")

\* whether __init__ takes the no-authentication branch
IsLocalEmulator(cluster) == StartsWith(cluster, "http://")

\* KustoDatabase(cluster, client_id, client_secret, authority_id): the
\* object built, or the ValueError raised
KustoDatabase_init(cluster, client_id, client_secret, authority_id) ==
    IF IsLocalEmulator(cluster)
    THEN [state |-> "built", error |-> None,
          kcsb |-> WithNoAuthentication(cluster)]
    ELSE IF client_id = None \/ client_secret = None \/ authority_id = None
    THEN [state |-> "failed", error |-> CredentialsRequired, kcsb |-> NoKcsb]
    ELSE [state |-> "built", error |-> None,
          kcsb |-> WithAadApplicationKey(cluster, client_id, client_secret,
                                         authority_id)]

\* the object before main() has run
Unbuilt == [state |-> "unbuilt", error |-> None, kcsb |-> NoKcsb]

---------------------------------------------------------------------------
(* The tool catalog of main().                                             *)

Tool(name, properties, required) ==
    [name |-> name, properties |-> properties, required |-> required]

\* the catalog with the name the if/elif chain compares with in place of
\* retrieve_internal_table_schema, and table no longer required there
ToolList_Drift ==
    << Tool("list_internal_tables", <<"database">>, <<"database">>),
       Tool("list_external_tables", <<"database">>, <<"database">>),
       Tool("list_materialized_views", <<"database">>, <<"database">>),
       Tool("execute_query_internal_table", <<"database", "query">>,
            <<"database", "query">>),
       Tool("execute_query_external_table", <<"database", "query">>,
            <<"database", "query">>),
       Tool("retrieve_table_schema", <<"database", "table">>,
            <<"database">>),
       Tool("retrieve_external_table_schema", <<"database", "table">>,
            <<"database", "table">>) >>

ToolList ==
    << Tool("list_internal_tables", <<"database">>, <<"database">>),
       Tool("list_external_tables", <<"database">>, <<"database">>),
       Tool("list_materialized_views", <<"database">>, <<"database">>),
       Tool("execute_query_internal_table", <<"database", "query">>,
            <<"database", "query">>),
       Tool("execute_query_external_table", <<"database", "query">>,
            <<"database", "query">>),
       Tool("retrieve_internal_table_schema", <<"database", "table">>,
            <<"database", "table">>),
       Tool("retrieve_external_table_schema", <<"database", "table">>,
            <<"database", "table">>) >>

\* tool_name_list = [tool.name for tool in tool_list]
ToolNameList(tools) == [i \in 1..Len(tools) |-> tools[i].name]

Range(f) == {f[i] : i \in DOMAIN f}

---------------------------------------------------------------------------
(* The gateway operations of KustoDatabase.                                *)

ManagementCommand == "Should not use management commands"

\* the check both execute_query_* methods make before their try block
IsManagementCommand(query) == StartsWith(query, ".")

\* the query sent as it came, without the rewrite
ExternalRewrite_Verbatim(query) == query

\* the rewrite of execute_query_external_table: the text before the first
\* pipe, stripped, is replaced wherever it occurs in the query
ExternalRewrite(query) ==
    LET table_name == Strip(SplitFirst(query, "|"))
    IN  Replace(query, table_name,
                "external_table(\"" \o table_name \o "\")")

\* the command a gateway method passes to kusto_client.execute
Command(method, arg) ==
    CASE method = "list_internal_tables" -> ".show tables"
      [] method = "list_external_tables" -> ".show external tables"
      [] method = "list_materialized_views" -> ".show materialized-views"
      [] method = "execute_query_internal_table" -> arg
      [] method = "execute_query_external_table" -> ExternalRewrite(arg)
      [] method = "retrieve_internal_table_schema" -> arg \o " | getschema"
      [] method = "retrieve_external_table_schema" ->
            "external_table(\"" \o arg \o "\") | getschema"

\* a response of the database: the request raised, or a response object
\* with its primary_results
Raised == [raised |-> TRUE, primary_results |-> <<>>]
Response(tables) == [raised |-> FALSE, primary_results |-> tables]

ListMethods ==
    {"list_internal_tables", "list_external_tables", "list_materialized_views"}

\* whether the try block of a gateway method ends in its except branch:
\* execute raised, primary_results[0] raised IndexError on a response
\* without tables, or row[0] did on a row without columns
Excepted(method, response) ==
    \/ response.raised
    \/ Len(response.primary_results) = 0
    \/ /\ method \in ListMethods
       /\ \E i \in 1..Len(response.primary_results[1]) :
              Len(response.primary_results[1][i]) = 0

\* an except branch that returns an empty list instead of falling off the
\* end of the method
Results_EmptyOnError(method, response) ==
    IF Excepted(method, response)
    THEN ListResult(<<>>)
    ELSE IF method \in ListMethods
    THEN LET rows == response.primary_results[1]
         IN  ListResult([i \in 1..Len(rows) |-> rows[i][1]])
    ELSE TableResult(response.primary_results[1])

\* what a gateway method returns for a response: the except branch logs and
\* falls off the end of the method, which returns None
Results(method, response) ==
    IF Excepted(method, response)
    THEN NoneResult
    ELSE IF method \in ListMethods
    THEN LET rows == response.primary_results[1]
         IN  ListResult([i \in 1..Len(rows) |-> rows[i][1]])
    ELSE TableResult(response.primary_results[1])

\* one client object kept by the KustoDatabase and handed to every call
NewClient_Shared(c) == 1

\* KustoClient(self.kcsb) in call c: a new client object of that call
\* alone, named after the call that made it
NewClient(c) == c

---------------------------------------------------------------------------
(* handle_call_tool.                                                       *)

\* the arguments of a call: None, or a dict from argument names to strings
NoneArguments == [none |-> TRUE, dict |-> <<>>]
Dict(d) == [none |-> FALSE, dict |-> d]

\* Python's "not arguments"
NotArguments(arguments) == arguments.none \/ DOMAIN arguments.dict = {}

\* key in arguments, for arguments that are not None
In(key, arguments) == key \in DOMAIN arguments.dict

UnknownTool(name) == "Unknown tool: " \o name
MissingDatabase == "Missing database argument"
MissingQuery == "Missing database or query argument"
MissingTable == "Missing database or table argument"

NoBranch == [method |-> "", key |-> "", missing |-> ""]

\* the if/elif chain of handle_call_tool: for the name it compares with,
\* the gateway method the branch calls, the argument the branch needs
\* besides database and the message it raises without it
Branch(name) ==
    CASE name = "list_internal_tables" ->
            [method |-> "list_internal_tables", key |-> "", missing |-> ""]
      [] name = "list_external_tables" ->
            [method |-> "list_external_tables", key |-> "", missing |-> ""]
      [] name = "list_materialized_views" ->
            [method |-> "list_materialized_views", key |-> "", missing |-> ""]
      [] name = "execute_query_internal_table" ->
            [method |-> "execute_query_internal_table", key |-> "query",
             missing |-> MissingQuery]
      [] name = "execute_query_external_table" ->
            [method |-> "execute_query_external_table", key |-> "query",
             missing |-> MissingQuery]
      [] name = "retrieve_table_schema" ->
            [method |-> "retrieve_internal_table_schema", key |-> "table",
             missing |-> MissingTable]
      [] name = "retrieve_external_table_schema" ->
            [method |-> "retrieve_external_table_schema", key |-> "table",
             missing |-> MissingTable]
      [] OTHER -> NoBranch

\* a call slot that holds no call
Idle ==
    [pc |-> "idle", name |-> "", arguments |-> NoneArguments, method |-> "",
     client |-> 0, opened |-> 0, sent |-> <<>>, response |-> Raised,
     outcome |-> [kind |-> "none"]]

\* the outcomes of a call: a raised ValueError, the list of one text
\* content, or the None of falling off the end of the handler
RaiseValueError(msg) == [kind |-> "error", error |-> msg]
TextContent(text) == [kind |-> "content", content |-> <<text>>]
ReturnNone == [kind |-> "None"]

---------------------------------------------------------------------------
(* The inputs the model draws from.                                        *)

Alphabet == {".", " ", "|", "x"}

RECURSIVE StringsOfLen(_)
StringsOfLen(n) ==
    IF n = 0 THEN {""}
    ELSE {s \o ch : s \in StringsOfLen(n - 1), ch \in Alphabet}

StringsUpTo(n) == UNION {StringsOfLen(k) : k \in 0..n}

\* every query string over the alphabet up to MaxLen characters
ShortQueries == StringsUpTo(MaxLen)

\* a bare table name: not empty, no pipe, no surrounding whitespace, no
\* leading dot
IsBareName(t) ==
    /\ t # ""
    /\ FindChar(t, "|", 1) > Len(t)
    /\ Strip(t) = t
    /\ ~StartsWith(t, ".")

BareNames == {t \in StringsUpTo(MaxNameLen) \cup {"StormEvents"} : IsBareName(t)}

WhereSuffix == " | where x > 1"

\* the queries "T | where x > 1"
WhereQueries == {t \o WhereSuffix : t \in BareNames}

ExampleQueries == {".show tables", " .show tables", "StormEvents | take 1"}

Queries == ShortQueries \cup WhereQueries \cup ExampleQueries

\* the few queries of the concurrent specification
FewQueries == {"x", ".x"}

Databases == {"Contoso"}
TableNames == {"T"}
Keys == {"database", "query", "table"}

\* every arguments value whose queries come from Q
ArgumentsOver(Q) ==
    {NoneArguments} \cup
    UNION { { Dict([k \in K |-> CASE k = "database" -> db
                                  [] k = "query" -> q
                                  [] k = "table" -> t])
              : db \in Databases, q \in Q, t \in TableNames }
            : K \in SUBSET Keys }

AllArguments == ArgumentsOver(Queries)
FewArguments == {a \in ArgumentsOver(FewQueries) : ~a.none /\ DOMAIN a.dict = Keys}

CatalogNames == Range(ToolNameList(ToolList))
AllNames == CatalogNames \cup {"retrieve_table_schema", "drop_database", ""}

\* what the database may answer to a request
DbResponses ==
    { Raised,
      Response(<<>>),
      Response(<< <<>> >>),
      Response(<< << <<"a">> >> >>),
      Response(<< << <<"a", "1">>, <<"b", "2">> >> >>) }

FewResponses == {Raised, Response(<< << <<"a">> >> >>)}

Clusters ==
    {"http://localhost:8080", "https://cluster.kusto.windows.net", "http:/",
     "", "HTTP://localhost:8080", "http://"}
LocalClusters == {"http://localhost:8080"}
Credentials == {None, "secret"}

---------------------------------------------------------------------------
(* The actions.                                                            *)

Init ==
    /\ kdb = Unbuilt
    /\ tool_list = <<>>
    /\ listed = <<>>
    /\ calls = [c \in 1..NumCalls |-> Idle]
    /\ conns = {}
    /\ logged = FALSE

\* main() up to the definition of the handlers: a failed KustoDatabase
\* constructor ends it before tool_list is defined
main(cluster, authority_id, client_id, client_secret) ==
    /\ kdb.state = "unbuilt"
    /\ kdb' = KustoDatabase_init(cluster, client_id, client_secret, authority_id)
    /\ tool_list' = IF kdb'.state = "built" THEN ToolList ELSE tool_list
    /\ UNCHANGED <<listed, calls, conns, logged>>

handle_list_tools ==
    /\ kdb.state = "built"
    /\ listed' = tool_list
    /\ UNCHANGED <<kdb, tool_list, calls, conns, logged>>

\* the two checks in the other order: the arguments before the name
EntryChecks_ArgumentsFirst(tool_name_list, name, arguments) ==
    IF NotArguments(arguments) \/ ~In("database", arguments)
    THEN MissingDatabase
    ELSE IF name \notin Range(tool_name_list)
    THEN UnknownTool(name)
    ELSE ""

\* the two checks handle_call_tool makes before it branches on the name:
\* the message of the ValueError raised, "" when both pass
EntryChecks(tool_name_list, name, arguments) ==
    IF name \notin Range(tool_name_list)
    THEN UnknownTool(name)
    ELSE IF NotArguments(arguments) \/ ~In("database", arguments)
    THEN MissingDatabase
    ELSE ""

\* the argument a branch passes to its gateway method besides database
GatewayArg(call) ==
    LET key == Branch(call.name).key
    IN  IF key = "" THEN "" ELSE call.arguments.dict[key]

QueryMethods ==
    {"execute_query_internal_table", "execute_query_external_table"}

\* handle_call_tool from its entry to the first request it would make: the
\* checks, the branch, the check of the query and the opening of the client
handle_call_tool(c, name, arguments) ==
    /\ kdb.state = "built"
    /\ calls[c].pc = "idle"
    /\ LET call == [Idle EXCEPT !.name = name, !.arguments = arguments]
           branch == Branch(name)
           done(outcome, method) ==
               /\ calls' = [calls EXCEPT ![c] =
                      [call EXCEPT !.pc = "done", !.outcome = outcome,
                                   !.method = method]]
               /\ UNCHANGED conns
           failed == EntryChecks(ToolNameList(tool_list), name, arguments)
       IN  IF failed # ""
           THEN done(RaiseValueError(failed), "")
           ELSE IF branch = NoBranch
           THEN done(ReturnNone, "")
           ELSE IF branch.key # "" /\ ~In(branch.key, arguments)
           THEN done(RaiseValueError(branch.missing), "")
           ELSE IF /\ branch.method \in QueryMethods
                   /\ IsManagementCommand(arguments.dict["query"])
           THEN done(RaiseValueError(ManagementCommand), branch.method)
           ELSE LET h == NewClient(c)
                IN  /\ calls' = [calls EXCEPT ![c] =
                           [call EXCEPT !.pc = "open", !.method = branch.method,
                                        !.client = h, !.opened = 1]]
                    /\ conns' = conns \cup {h}
    /\ UNCHANGED <<kdb, tool_list, listed, logged>>

\* kusto_client.execute(database, command): the one request of the method,
\* answered by a response or by an exception
Execute(c, response) ==
    /\ calls[c].pc = "open"
    /\ LET call == calls[c]
           request == [client |-> call.client,
                       database |-> call.arguments.dict["database"],
                       command |-> Command(call.method, GatewayArg(call))]
       IN  calls' = [calls EXCEPT ![c] =
               [call EXCEPT !.pc = "executed",
                            !.sent = Append(call.sent, request),
                            !.response = response]]
    /\ UNCHANGED <<kdb, tool_list, listed, conns, logged>>

\* the connections left open when a with block over client h is left
CloseClient(open, h) == open \ {h}

\* the end of the with block, the return or the except branch of the
\* method, and the return of handle_call_tool
Finish(c) ==
    /\ calls[c].pc = "executed"
    /\ LET call == calls[c]
           results == Results(call.method, call.response)
       IN  /\ conns' = CloseClient(conns, call.client)
           /\ calls' = [calls EXCEPT ![c] =
                  [call EXCEPT !.pc = "done", !.client = 0,
                               !.outcome = TextContent(Str(results))]]
           /\ logged' = (logged \/ Excepted(call.method, call.response))
    /\ UNCHANGED <<kdb, tool_list, listed>>

\* the result of handle_call_tool has gone back to the transport: the slot
\* takes the next call
Return(c) ==
    /\ calls[c].pc = "done"
    /\ calls' = [calls EXCEPT ![c] = Idle]
    /\ UNCHANGED <<kdb, tool_list, listed, conns, logged>>

\* the server over the call slots S, with names from N, arguments from A
\* database responses from R and cluster urls from C
Server(S, N, A, R, C) ==
    \/ \E cluster \in C, authority_id, client_id, client_secret \in Credentials :
          main(cluster, authority_id, client_id, client_secret)
    \/ handle_list_tools
    \/ \E c \in {i \in S : calls[i].pc = "idle"}, name \in N, arguments \in A :
          handle_call_tool(c, name, arguments)
    \/ \E c \in {i \in S : calls[i].pc = "open"}, response \in R :
          Execute(c, response)
    \/ \E c \in S : Finish(c)
    \/ \E c \in S : Return(c)

\* the transport delivers one call at a time: one slot, every input
Next == Server({1}, AllNames, AllArguments, DbResponses, Clusters)

Spec == Init /\ [][Next]_vars

\* calls in flight at once, over the catalog's names and complete arguments,
\* against the local emulator
NextConcurrent == Server(1..NumCalls, CatalogNames, FewArguments, FewResponses, LocalClusters)

SpecConcurrent == Init /\ [][NextConcurrent]_vars

---------------------------------------------------------------------------
(* The vocabulary of the claims.                                           *)

Slots == 1..NumCalls

\* the seven operation names the catalog is said to advertise
SevenNames ==
    <<"list_internal_tables", "list_external_tables",
      "list_materialized_views", "execute_query_internal_table",
      "execute_query_external_table", "retrieve_internal_table_schema",
      "retrieve_external_table_schema">>

\* the arguments each of the seven descriptors is said to require
RequiredOf(name) ==
    CASE name \in {"execute_query_internal_table",
                   "execute_query_external_table"} -> {"database", "query"}
      [] name \in {"retrieve_internal_table_schema",
                   "retrieve_external_table_schema"} -> {"database", "table"}
      [] OTHER -> {"database"}

\* the argument names a call supplies
Supplied(call) == IF call.arguments.none THEN {} ELSE DOMAIN call.arguments.dict

Received(call) == call.pc # "idle"
Ended(call) == call.pc = "done"

\* the failures of the error taxonomy, by the message handle_call_tool's
\* caller gets
IsUnknownOperation(o) == o.kind = "error" /\ StartsWith(o.error, "Unknown tool: ")
IsMissingArgument(o) ==
    o.kind = "error" /\ o.error \in {MissingDatabase, MissingQuery, MissingTable}
IsForbiddenCommand(o) == o.kind = "error" /\ o.error = ManagementCommand

\* a query whose trimmed form begins with "."
TrimmedManagement(q) == StartsWith(Strip(q), ".")

\* the call is one of the two query operations with database and query
IsQueryCall(call) ==
    /\ call.name \in QueryMethods
    /\ {"database", "query"} \subseteq Supplied(call)

---------------------------------------------------------------------------
(* C1: a query whose trimmed form begins with "." is rejected by both      *)
(* execute_query_* operations with ForbiddenCommand, the failure reaches   *)
(* the caller of the handler, and no command is sent for that call.        *)
C1_TrimmedManagementRejected ==
    \A c \in Slots :
        LET call == calls[c]
        IN  (/\ Received(call)
             /\ IsQueryCall(call)
             /\ TrimmedManagement(call.arguments.dict["query"]))
            => /\ Ended(call)
               /\ IsForbiddenCommand(call.outcome)
               /\ call.sent = <<>>

(* C2: a call by one of the seven advertised names with its required       *)
(* arguments (and a query that passes the guard) invokes the gateway       *)
(* operation of the same name once and returns one text item holding the   *)
(* stringified result.                                                     *)
C2_EveryNameDispatches ==
    \A c \in Slots :
        LET call == calls[c]
        IN  (/\ Ended(call)
             /\ call.name \in Range(SevenNames)
             /\ RequiredOf(call.name) \subseteq Supplied(call)
             /\ call.name \in QueryMethods
                   => ~TrimmedManagement(call.arguments.dict["query"]))
            => /\ call.method = call.name
               /\ call.opened = 1
               /\ Len(call.sent) = 1
               /\ call.outcome =
                     TextContent(Str(Results(call.name, call.response)))

(* C3: a call by one of the seven names that lacks an argument its         *)
(* descriptor requires fails with MissingArgument and invokes no gateway   *)
(* operation.                                                              *)
C3_MissingArgumentRejected ==
    \A c \in Slots :
        LET call == calls[c]
        IN  (/\ Received(call)
             /\ call.name \in Range(SevenNames)
             /\ ~(RequiredOf(call.name) \subseteq Supplied(call)))
            => /\ Ended(call)
               /\ IsMissingArgument(call.outcome)
               /\ call.method = ""
               /\ call.opened = 0
               /\ call.sent = <<>>

(* C4: for a bare table name T, execute_query_external_table with the      *)
(* query "T | where x > 1" sends exactly                                   *)
(* external_table("T") | where x > 1.                                      *)
C4_OnlyLeadingTableWrapped ==
    \A c \in Slots :
        LET call == calls[c]
        IN  \A t \in BareNames :
               (/\ call.pc \in {"executed", "done"}
                /\ call.name = "execute_query_external_table"
                /\ {"database", "query"} \subseteq Supplied(call)
                /\ call.arguments.dict["query"] = t \o " | where x > 1")
               => /\ Len(call.sent) = 1
                  /\ call.sent[1].command =
                        "external_table(\"" \o t \o "\") | where x > 1"

(* C5: a call by a name that is not one of the seven fails with            *)
(* UnknownOperation whatever its arguments are, and invokes no gateway     *)
(* operation.                                                              *)
C5_UnknownNameRejected ==
    \A c \in Slots :
        LET call == calls[c]
        IN  (Received(call) /\ call.name \notin Range(SevenNames))
            => /\ Ended(call)
               /\ IsUnknownOperation(call.outcome)
               /\ call.method = ""
               /\ call.opened = 0
               /\ call.sent = <<>>

\* C5's case: an unknown name whose arguments lack database, refused by
\* its name and not by its arguments
C5_Witness ==
    \E c \in Slots :
        /\ Ended(calls[c])
        /\ calls[c].name = "retrieve_table_schema"
        /\ "database" \notin Supplied(calls[c])
        /\ IsUnknownOperation(calls[c].outcome)

---------------------------------------------------------------------------
\* a call that holds a client: between the opening of its with block and
\* the end of it
InFlight(call) == call.pc \in {"open", "executed"}

\* a call that reached a gateway method
Invoked(call) == call.method # ""

\* the clauses of C6 that hold of every call, whatever the check of the
\* query decided: the client of a call in flight is open and carries its
\* one request, no two calls hold the same client, and every open client
\* belongs to a call in flight
ConnectionsScoped ==
    /\ \A c \in Slots :
          LET call == calls[c]
          IN  /\ InFlight(call) => call.client \in conns
              /\ call.pc = "open" => call.sent = <<>>
              /\ call.pc = "executed"
                    => Len(call.sent) = 1 /\ call.sent[1].client = call.client
              /\ (Ended(call) /\ call.opened = 1)
                    => /\ Len(call.sent) = 1
                       /\ call.sent[1].client \notin
                             {calls[d].client : d \in Slots \ {c}}
    /\ \A c, d \in Slots :
          (c # d /\ InFlight(calls[c]) /\ InFlight(calls[d]))
          => calls[c].client # calls[d].client
    /\ \A h \in conns : \E c \in Slots : InFlight(calls[c]) /\ calls[c].client = h

(* C6 as stated: every invocation of a gateway operation opens one         *)
(* connection of its own, issues exactly one request on it and has         *)
(* released it when the operation ends; no connection is shared and none   *)
(* stays open after its call.                                              *)
C6_EveryInvocationOpensOnce ==
    /\ ConnectionsScoped
    /\ \A c \in Slots :
          (Invoked(calls[c]) /\ Ended(calls[c]))
          => calls[c].opened = 1 /\ Len(calls[c].sent) = 1

(* C6 as amended: every invocation of a gateway operation that the         *)
(* management-command check does not reject opens one connection of its    *)
(* own, issues exactly one request on it and has released it when the      *)
(* operation ends, whether the request succeeded or raised; a rejected     *)
(* invocation opens no connection and issues no request; no connection is  *)
(* shared and none stays open after its call.                              *)
C6_ScopedConnection ==
    /\ ConnectionsScoped
    /\ \A c \in Slots :
          LET call == calls[c]
          IN  /\ (Invoked(call) /\ ~IsForbiddenCommand(call.outcome))
                    => call.opened = 1
              /\ (Invoked(call) /\ Ended(call)
                    /\ ~IsForbiddenCommand(call.outcome))
                    => Len(call.sent) = 1 /\ call.client = 0
              /\ IsForbiddenCommand(call.outcome)
                    => call.opened = 0 /\ call.sent = <<>>

\* C6's case: a call has ended after its request raised and its client is
\* closed, while another call holds its own open client
C6_Witness ==
    /\ Ended(calls[1]) /\ Invoked(calls[1]) /\ calls[1].response.raised
    /\ Len(calls[1].sent) = 1
    /\ calls[2].pc = "executed" /\ ~calls[2].response.raised
    /\ conns = {calls[2].client}

(* C7: building the configuration has three outcomes: an endpoint that     *)
(* starts with http:// succeeds without authentication whatever the        *)
(* credentials; otherwise a missing credential fails with the              *)
(* configuration error and nothing is constructed; otherwise it succeeds   *)
(* with the application credential carrying all three fields.              *)
C7_ThreeOutcomes ==
    [][\A cluster \in Clusters, authority_id, client_id, client_secret \in Credentials :
          main(cluster, authority_id, client_id, client_secret)
          => IF Len(cluster) >= 7 /\ SubSeq(cluster, 1, 7) = "http://"
             THEN /\ kdb'.state = "built"
                  /\ kdb'.kcsb.auth = "None"
                  /\ kdb'.kcsb.cluster = cluster
             ELSE IF None \in {authority_id, client_id, client_secret}
             THEN /\ kdb'.state = "failed"
                  /\ kdb'.error = "Client id, client secret and authority id are required"
                  /\ kdb'.kcsb.auth = "unset"
                  /\ tool_list' = <<>>
             ELSE /\ kdb'.state = "built"
                  /\ kdb'.kcsb =
                        [auth |-> "AppCredential", cluster |-> cluster,
                         client_id |-> client_id,
                         client_secret |-> client_secret,
                         authority_id |-> authority_id]]_vars

\* C7's case: the constructor has refused an endpoint that is not http://
\* for a missing credential
C7_Witness ==
    /\ kdb.state = "failed"
    /\ kdb.kcsb.auth = "unset"
    /\ tool_list = <<>>

\* the names and required-argument sets of a list of tools, in its order
Descriptors(tools) ==
    [i \in 1..Len(tools) |->
        [name |-> tools[i].name, required |-> Range(tools[i].required)]]

\* the seven descriptors the catalog is said to hold
SevenDescriptors ==
    [i \in 1..7 |-> [name |-> SevenNames[i], required |-> RequiredOf(SevenNames[i])]]

(* C8: whatever calls came before, the catalog the handlers read and the   *)
(* list handle_list_tools returns are the same seven descriptors with the  *)
(* same required arguments in the same order.                              *)
C8_CatalogStable ==
    kdb.state = "built"
    => /\ Descriptors(tool_list) = SevenDescriptors
       /\ listed # <<>> => Descriptors(listed) = SevenDescriptors

\* C8's case: the tools were listed on a server that has swallowed a
\* failed request and whose last call failed
C8_Witness ==
    /\ listed # <<>>
    /\ logged
    /\ \E c \in Slots : Ended(calls[c]) /\ calls[c].outcome.kind = "error"

(* C9: when the request to the database raises, the gateway method yields  *)
(* None and the handler returns one text item "None" instead of failing;   *)
(* a call whose request succeeds returns its rows whatever failed before.  *)
C9_DownstreamFailureSwallowed ==
    \A c \in Slots :
        LET call == calls[c]
        IN  (Ended(call) /\ Len(call.sent) = 1)
            => /\ call.response.raised
                  => /\ call.outcome = [kind |-> "content", content |-> <<"None">>]
                     /\ logged
               /\ ~Excepted(call.method, call.response)
                  => /\ call.outcome.kind = "content"
                     /\ Len(call.outcome.content) = 1
                     /\ call.outcome.content[1] # "None"
                     /\ call.outcome.content[1] =
                           Str(Results(call.method, call.response))

\* C9's case: a call whose request raised has returned the text "None"
C9_Witness ==
    \E c \in Slots :
        /\ Ended(calls[c])
        /\ Len(calls[c].sent) = 1
        /\ calls[c].response.raised
        /\ calls[c].outcome = [kind |-> "content", content |-> <<"None">>]

(* C10: no command execute_query_external_table sends begins with "."      *)
(* after its leading whitespace: the text sent has external_table(" at     *)
(* its first position that is not whitespace.                              *)
C10_ExternalNeverSendsManagement ==
    \A c \in Slots :
        LET call == calls[c]
        IN  \A i \in 1..Len(call.sent) :
               call.method = "execute_query_external_table"
               => /\ ~StartsWith(LStrip(call.sent[i].command), ".")
                  /\ StartsWith(LStrip(call.sent[i].command), "external_table(\"")

\* C10's case: a query whose trimmed form begins with "." got past the
\* check of execute_query_external_table and its command was sent
C10_Witness ==
    \E c \in Slots :
        /\ calls[c].method = "execute_query_external_table"
        /\ Len(calls[c].sent) = 1
        /\ TrimmedManagement(calls[c].arguments.dict["query"])

===========================================================================
